---- MODULE Spec2Model ----
(***************************************************************************)
(* Model of the result browser pages (src/pages/*.py): the combination     *)
(* index (extract_parameters_from_paths, filter_valid_combinations), the   *)
(* render cycle of each page's main(), and the metric resolution of the    *)
(* evaluation page.                                                        *)
(*                                                                         *)
(* File names are sequences of one-character strings, so that the regular  *)
(* expression search, int() and the f-string formatting are computed       *)
(* character by character.  Column names are strings.  Column values are   *)
(* integers (the metric values scaled to a fixed unit).                    *)
(***************************************************************************)
EXTENDS Integers, Sequences, FiniteSets, TLC

VARIABLES
    page,                   \* which page's main() is running
    results_dir,            \* os.listdir(results_dir): file names, in listing order
    pc,                     \* position of the script run
    parameter_combinations, \* dict: dimension name -> ascending list
    selected_frequency,
    selected_blocksize,
    valid_nob,
    selected_nob,           \* tagged value: an int of valid_nob or the placeholder string
    file,                   \* the file name built on line 138
    df,                     \* the loaded table: column name -> list of values
    category,
    only_xy,
    distance,
    axis,
    param_3d,
    color_range,
    x_axis,
    y_axis,
    read_path,              \* the file name pd.read_csv was called with, or << >>
    exception,              \* the uncaught exception that ended the run, or "none"
    ui                      \* what the run has put on the page

vars == << page, results_dir, pc, parameter_combinations, selected_frequency,
           selected_blocksize, valid_nob, selected_nob, file, df, category,
           only_xy, distance, axis, param_3d, color_range, x_axis, y_axis,
           read_path, exception, ui >>

-----------------------------------------------------------------------------
(* Bounds *)

\* Largest number of entries in a directory listing.
MaxFiles == 2

-----------------------------------------------------------------------------
(* Python's str and int primitives, on sequences of characters *)

DigitChars == << "0", "1", "2", "3", "4", "5", "6", "7", "8", "9" >>

IsDigit(c) == \E i \in 1..Len(DigitChars) : DigitChars[i] = c

DigitValue(c) == (CHOOSE i \in 1..Len(DigitChars) : DigitChars[i] = c) - 1

\* int(s) for a string of decimal digits.
RECURSIVE ParseInt(_)
ParseInt(s) ==
    IF s = << >> THEN 0
    ELSE 10 * ParseInt(SubSeq(s, 1, Len(s) - 1)) + DigitValue(s[Len(s)])

\* str(n) as an f-string prints a non-negative int: no sign, no padding.
RECURSIVE FormatInt(_)
FormatInt(n) ==
    IF n < 10 THEN << DigitChars[n + 1] >>
    ELSE FormatInt(n \div 10) \o << DigitChars[(n % 10) + 1] >>

\* s.endswith(suffix)
EndsWith(s, suffix) ==
    /\ Len(s) >= Len(suffix)
    /\ SubSeq(s, Len(s) - Len(suffix) + 1, Len(s)) = suffix

\* The literal lit stands in s at index i.
LiteralAt(s, i, lit) ==
    /\ i + Len(lit) - 1 <= Len(s)
    /\ SubSeq(s, i, i + Len(lit) - 1) = lit

\* \d+ is greedy: the index just past the longest run of digits starting at i
\* (i itself when s[i] is no digit).  The run is followed in the pattern by a
\* non-digit literal or by nothing, so no shorter run can match.
RECURSIVE DigitRunEnd(_, _)
DigitRunEnd(s, i) ==
    IF i <= Len(s) /\ IsDigit(s[i]) THEN DigitRunEnd(s, i + 1) ELSE i

NoMatch == [matched |-> FALSE]

\* The pattern r"f(\d+)_bs(\d+)_nob(\d+)" anchored at index i of s.
MatchAt(s, i) ==
    LET f1 == i + 1
        f2 == DigitRunEnd(s, f1)
        b1 == f2 + 3
        b2 == DigitRunEnd(s, b1)
        n1 == b2 + 4
        n2 == DigitRunEnd(s, n1)
    IN  IF /\ LiteralAt(s, i, << "f" >>)
           /\ f2 > f1
           /\ LiteralAt(s, f2, << "_", "b", "s" >>)
           /\ b2 > b1
           /\ LiteralAt(s, b2, << "_", "n", "o", "b" >>)
           /\ n2 > n1
        THEN [matched |-> TRUE,
              groups  |-> << SubSeq(s, f1, f2 - 1),
                             SubSeq(s, b1, b2 - 1),
                             SubSeq(s, n1, n2 - 1) >>]
        ELSE NoMatch

\* re.search: the match at the leftmost index where the pattern matches.
RECURSIVE SearchFrom(_, _)
SearchFrom(s, i) ==
    IF i > Len(s) THEN NoMatch
    ELSE IF MatchAt(s, i).matched THEN MatchAt(s, i)
    ELSE SearchFrom(s, i + 1)

re_search(s) == SearchFrom(s, 1)

\* sorted(S, reverse=True): descending.
RECURSIVE sortedReverse(_)
sortedReverse(S) ==
    IF S = {} THEN << >>
    ELSE LET m == CHOOSE x \in S : \A y \in S : y <= x
         IN  << m >> \o sortedReverse(S \ {m})

\* sorted(S) of a set of ints: ascending.
RECURSIVE sorted(_)
sorted(S) ==
    IF S = {} THEN << >>
    ELSE LET m == CHOOSE x \in S : \A y \in S : x <= y
         IN  << m >> \o sorted(S \ {m})

Range(q) == { q[i] : i \in 1..Len(q) }

-----------------------------------------------------------------------------
(* The combination index *)

CSV == << ".", "c", "s", "v" >>

\* files = [f for f in os.listdir(results_dir) if f.endswith(".csv")]
CsvFiles(listing) == SelectSeq(listing, LAMBDA f : EndsWith(f, CSV))

EmptyDict == [k \in {} |-> {}]

\* parameter_combinations[k].add(v) on a defaultdict(set)
DictAdd(d, k, v) ==
    [x \in (DOMAIN d) \cup {k} |->
        IF x = k THEN (IF k \in DOMAIN d THEN d[k] ELSE {}) \cup {v} ELSE d[x]]

\* The loop of extract_parameters_from_paths over files[i..].
RECURSIVE ExtractLoop(_, _, _)
ExtractLoop(files, i, acc) ==
    IF i > Len(files) THEN acc
    ELSE LET match == re_search(files[i])
         IN  IF match.matched
             THEN ExtractLoop(files, i + 1,
                     DictAdd(DictAdd(DictAdd(acc,
                         "frequency", ParseInt(match.groups[1])),
                         "blocksize", ParseInt(match.groups[2])),
                         "nob", ParseInt(match.groups[3])))
             ELSE ExtractLoop(files, i + 1, acc)

extract_parameters_from_paths(listing) ==
    LET sets == ExtractLoop(CsvFiles(listing), 1, EmptyDict)
    IN  [k \in DOMAIN sets |-> sorted(sets[k])]

\* The loop of filter_valid_combinations over files[i..].
RECURSIVE FilterLoop(_, _, _, _, _)
FilterLoop(files, i, frequency, blocksize, acc) ==
    IF i > Len(files) THEN acc
    ELSE LET match == re_search(files[i])
         IN  IF /\ match.matched
                /\ ParseInt(match.groups[1]) = frequency
                /\ ParseInt(match.groups[2]) = blocksize
             THEN FilterLoop(files, i + 1, frequency, blocksize,
                             acc \cup {ParseInt(match.groups[3])})
             ELSE FilterLoop(files, i + 1, frequency, blocksize, acc)

filter_valid_combinations(frequency, blocksize, listing) ==
    sorted(FilterLoop(CsvFiles(listing), 1, frequency, blocksize, {}))


-----------------------------------------------------------------------------
(* File names *)

RS == << "r", "e", "s", "u", "l", "t", "_", "s", "u", "m", "m", "a", "r", "y", "_" >>

\* The option offered when valid_nob is empty (lines 136).
NoValidCombinations ==
    << "N", "o", " ", "v", "a", "l", "i", "d", " ",
       "c", "o", "m", "b", "i", "n", "a", "t", "i", "o", "n", "s" >>

IntValue(n) == [t |-> "int", v |-> n]
StrValue(s) == [t |-> "str", v |-> s]
NoValue == [t |-> "none"]

\* How an f-string prints a selectbox value.
Format(value) == IF value.t = "int" THEN FormatInt(value.v) ELSE value.v

\* f"result_summary_f{selected_frequency}_bs{selected_blocksize}_nob{selected_nob}.csv"
ResultFileName(frequency, blocksize, nob) ==
    RS \o << "f" >> \o FormatInt(frequency)
       \o << "_", "b", "s" >> \o FormatInt(blocksize)
       \o << "_", "n", "o", "b" >> \o Format(nob) \o CSV

\* The parameter values the experiment pipeline is run with in this model.
ParamValues == {1, 2, 12}

\* The names the pipeline writes for some configurations.
PipelineNames ==
    { ResultFileName(f, b, IntValue(n)) : f \in {1, 2}, b \in {1, 12}, n \in {2, 12} }

Old == << "o", "l", "d", "_" >>
Tail12 == << "f", "1", "_", "b", "s", "1", "2", "_", "n", "o", "b", "2" >>

\* Other names a result directory can hold.
PrefixedName == Old \o Tail12 \o CSV                   \* old_f1_bs12_nob2.csv
SuffixedName == RS \o Tail12 \o << "_", "v", "2" >> \o CSV
                                                       \* result_summary_f1_bs12_nob2_v2.csv
PaddedName ==                                          \* result_summary_f01_bs1_nob02.csv
    RS \o << "f", "0", "1", "_", "b", "s", "1", "_", "n", "o", "b", "0", "2" >> \o CSV
TextName == RS \o Tail12 \o << ".", "t", "x", "t" >>   \* result_summary_f1_bs12_nob2.txt
NotesName == << "n", "o", "t", "e", "s" >> \o CSV      \* notes.csv
PartialName ==                                         \* result_summary_f2_bs1.csv
    RS \o << "f", "2", "_", "b", "s", "1" >> \o CSV

OtherNames ==
    { PrefixedName, SuffixedName, PaddedName, TextName, NotesName, PartialName }

IndexNames == PipelineNames \cup OtherNames

\* The names of the directories the pages are run against.
PageNames ==
    { ResultFileName(1, 1, IntValue(2)), ResultFileName(2, 12, IntValue(12)),
      PrefixedName, PaddedName, NotesName }

\* os.listdir: the names of a directory, each once, in any order.
Listings(names, n) ==
    UNION { { q \in [1..k -> names] : \A i, j \in 1..k : q[i] = q[j] => i = j } :
            k \in 0..n }

-----------------------------------------------------------------------------
(* The evaluation table *)

\* The options of the evaluation page's select boxes.
Categories ==
    << "Accuracy", "Beamforming Maxima", "Interquartile Range", "Mean Absolute Error",
       "Mean Difference", "Mean Distance", "Median Distance", "Standard Deviation" >>
Distances == << 5, 10, 15, 20, 30, 40, 50, 60 >>
Axes == << "x", "y", "z" >>
Cmaps == << "amp", "Viridis", "Blues", "deep" >>

\* f"accuracy_{distance}cm_xy" if only_xy else f"accuracy_{distance}cm"
AccuracyColumn(d, xy) ==
    IF xy THEN "accuracy_" \o ToString(d) \o "cm_xy"
    ELSE "accuracy_" \o ToString(d) \o "cm"

\* f"mean_diff_{axis}"
MeanDiffColumn(a) == "mean_diff_" \o a

\* The columns the pages read from a result table.
PlotColumns == { "real_x", "real_y", "real_z", "name" }
XYColumns ==
    { AccuracyColumn(d, TRUE) : d \in Range(Distances) }
        \cup { "beamforming_dist_xy", "mae_xy", "mean_dist_xy", "median_dist_xy",
               "coord_std_xy" }
BaseColumns ==
    { AccuracyColumn(d, FALSE) : d \in Range(Distances) }
        \cup { MeanDiffColumn(a) : a \in Range(Axes) }
        \cup { "beamforming_dist", "iqr_dist", "mae_coord", "mean_dist", "median_dist",
               "coord_std" }
Schema == PlotColumns \cup BaseColumns \cup XYColumns

\* Column contents: metric values of three target locations, in a fixed unit.
SampleA == << 1, 3, 2 >>
SampleB == << 4, 2, 5 >>
SamplePairs == { << SampleA, SampleB >>, << SampleB, SampleA >> }
RowNames == << "p1", "p2", "p3" >>

\* A result table in which the columns of `missing` are absent, the base columns hold
\* `base` and the xy columns hold `xy`.
MakeTable(missing, base, xy) ==
    [c \in Schema \ missing |->
        IF c = "name" THEN RowNames ELSE IF c \in XYColumns THEN xy ELSE base]

\* The tables a result file can hold: the full schema, or one column short.
Tables ==
    { MakeTable(missing, p[1], p[2]) :
        missing \in { {} } \cup { {c} : c \in Schema }, p \in SamplePairs }

NoTable == EmptyDict

\* Series.max() and Series.min() of a column with at least one row.
ColumnMax(col) == CHOOSE m \in Range(col) : \A v \in Range(col) : v <= m
ColumnMin(col) == CHOOSE m \in Range(col) : \A v \in Range(col) : m <= v

-----------------------------------------------------------------------------
(* Metric resolution: the if/elif chain of the evaluation page, lines 157-185 *)

\* Param3d with an xy variant given to Interquartile Range as well.
Param3dXYEverywhere(cat, xy, d, a) ==
    CASE cat = "Accuracy" -> AccuracyColumn(d, xy)
      [] cat = "Beamforming Maxima" -> IF xy THEN "beamforming_dist_xy" ELSE "beamforming_dist"
      [] cat = "Interquartile Range" -> IF xy THEN "iqr_dist_xy" ELSE "iqr_dist"
      [] cat = "Mean Absolute Error" -> IF xy THEN "mae_xy" ELSE "mae_coord"
      [] cat = "Mean Difference" -> MeanDiffColumn(a)
      [] cat = "Mean Distance" -> IF xy THEN "mean_dist_xy" ELSE "mean_dist"
      [] cat = "Median Distance" -> IF xy THEN "median_dist_xy" ELSE "median_dist"
      [] cat = "Standard Deviation" -> IF xy THEN "coord_std_xy" ELSE "coord_std"
      [] OTHER -> ""

\* param_3d as the branch of `category` assigns it; "" in the else branch.
Param3d(cat, xy, d, a) ==
    CASE cat = "Accuracy" -> AccuracyColumn(d, xy)
      [] cat = "Beamforming Maxima" -> IF xy THEN "beamforming_dist_xy" ELSE "beamforming_dist"
      [] cat = "Interquartile Range" -> "iqr_dist"
      [] cat = "Mean Absolute Error" -> IF xy THEN "mae_xy" ELSE "mae_coord"
      [] cat = "Mean Difference" -> MeanDiffColumn(a)
      [] cat = "Mean Distance" -> IF xy THEN "mean_dist_xy" ELSE "mean_dist"
      [] cat = "Median Distance" -> IF xy THEN "median_dist_xy" ELSE "median_dist"
      [] cat = "Standard Deviation" -> IF xy THEN "coord_std_xy" ELSE "coord_std"
      [] OTHER -> ""

\* RangeColumn with every branch reading the column it selected.
RangeColumnSelected(cat, xy, d, a) ==
    IF cat \in Range(Categories) \ { "Accuracy" } THEN Param3d(cat, xy, d, a) ELSE ""

\* The column of df the branch reads to compute color_range; "" when it reads none.
RangeColumn(cat, xy, d, a) ==
    CASE cat = "Beamforming Maxima" -> "beamforming_dist"
      [] cat = "Interquartile Range" -> "iqr_dist"
      [] cat = "Mean Absolute Error" -> "mae_coord"
      [] cat = "Mean Difference" -> MeanDiffColumn(a)
      [] cat = "Mean Distance" -> "mean_dist"
      [] cat = "Median Distance" -> "median_dist"
      [] cat = "Standard Deviation" -> Param3d(cat, xy, d, a)
      [] OTHER -> ""

\* ColorRange with Accuracy scaled to the column's maximum like the other branches.
ColorRangeAccuracyFromTable(cat, xy, d, a, table) ==
    CASE cat = "Accuracy" ->
            IF Param3d(cat, xy, d, a) \in DOMAIN table
            THEN << 0, ColumnMax(table[Param3d(cat, xy, d, a)]) >>
            ELSE << 0, 1 >>
      [] cat = "Standard Deviation" ->
            << ColumnMin(table[RangeColumn(cat, xy, d, a)]),
               ColumnMax(table[RangeColumn(cat, xy, d, a)]) >>
      [] OTHER -> << 0, ColumnMax(table[RangeColumn(cat, xy, d, a)]) >>

\* color_range as the branch computes it from the table (its column is present).
ColorRange(cat, xy, d, a, table) ==
    CASE cat = "Accuracy" -> << 0, 1 >>
      [] cat = "Standard Deviation" ->
            << ColumnMin(table[RangeColumn(cat, xy, d, a)]),
               ColumnMax(table[RangeColumn(cat, xy, d, a)]) >>
      [] OTHER -> << 0, ColumnMax(table[RangeColumn(cat, xy, d, a)]) >>

\* What the chain does: "ok" (falls through to the plot), "KeyError" (df[...] of an
\* absent column raises after param_3d is bound), "unknown" (the else branch).
Resolve(cat, xy, d, a, table) ==
    IF cat \notin Range(Categories)
    THEN [outcome |-> "unknown", param_3d |-> "", color_range |-> << >>]
    ELSE IF /\ RangeColumn(cat, xy, d, a) # ""
            /\ RangeColumn(cat, xy, d, a) \notin DOMAIN table
    THEN [outcome |-> "KeyError", param_3d |-> Param3d(cat, xy, d, a),
          color_range |-> << >>]
    ELSE [outcome |-> "ok", param_3d |-> Param3d(cat, xy, d, a),
          color_range |-> ColorRange(cat, xy, d, a, table)]

\* get_parameter_description: the text is identified by its template and the values
\* substituted into it.
get_parameter_description(cat, d, a) ==
    IF cat \in Range(Categories)
    THEN [template |-> cat,
          args |-> IF cat = "Accuracy" THEN << ToString(d) >>
                   ELSE IF cat = "Mean Difference" THEN << a >> ELSE << >>]
    ELSE [template |-> "No description available for this category.", args |-> << >>]

\* The columns plot_3d reads from df.
Plot3dColumns(param) == { "real_x", "real_z", "real_y", "name", param }

\* df["Index"] = range(1, len(df) + 1)
WithIndex(table) ==
    [c \in (DOMAIN table) \cup {"Index"} |->
        IF c = "Index" THEN [i \in 1..Len(RowNames) |-> i] ELSE table[c]]

-----------------------------------------------------------------------------
(* The render cycle: one run of a page's main() *)

Pages == { "Evaluation_Plot_Single_Source_just_3D", "Plot_Params", "Raw_Data_Table" }
EvaluationPage == "Evaluation_Plot_Single_Source_just_3D"

NoChart == [shown |-> FALSE]
BlankPage ==
    [warning |-> FALSE, error |-> FALSE, info |-> FALSE, dataframe |-> FALSE,
     description |-> FALSE, chart |-> NoChart]

\* The state of a run before its first statement.
Fresh ==
    /\ pc = "scan"
    /\ parameter_combinations = EmptyDict
    /\ selected_frequency = 0
    /\ selected_blocksize = 0
    /\ valid_nob = << >>
    /\ selected_nob = NoValue
    /\ file = << >>
    /\ df = NoTable
    /\ category = ""
    /\ only_xy = FALSE
    /\ distance = 0
    /\ axis = ""
    /\ param_3d = ""
    /\ color_range = << >>
    /\ x_axis = ""
    /\ y_axis = ""
    /\ read_path = << >>
    /\ exception = "none"
    /\ ui = BlankPage

Init ==
    /\ page \in Pages
    /\ results_dir \in Listings(PageNames, MaxFiles)
    /\ Fresh

\* parameter_combinations = extract_parameters_from_paths(results_dir)
Scan ==
    /\ pc = "scan"
    /\ parameter_combinations' = extract_parameters_from_paths(results_dir)
    /\ pc' = "select"
    /\ UNCHANGED << page, results_dir, selected_frequency, selected_blocksize,
                    valid_nob, selected_nob, file, df, category, only_xy, distance,
                    axis, param_3d, color_range, x_axis, y_axis, read_path,
                    exception, ui >>

\* The two select boxes over parameter_combinations["frequency"] and ["blocksize"].
SelectParameters ==
    /\ pc = "select"
    /\ { "frequency", "blocksize" } \subseteq DOMAIN parameter_combinations
    /\ \E f \in Range(parameter_combinations["frequency"]),
          b \in Range(parameter_combinations["blocksize"]) :
            /\ selected_frequency' = f
            /\ selected_blocksize' = b
    /\ pc' = "filter"
    /\ UNCHANGED << page, results_dir, parameter_combinations, valid_nob,
                    selected_nob, file, df, category, only_xy, distance, axis,
                    param_3d, color_range, x_axis, y_axis, read_path, exception, ui >>

\* parameter_combinations["frequency"] on a dict without that key.
SelectKeyError ==
    /\ pc = "select"
    /\ "frequency" \notin DOMAIN parameter_combinations
    /\ exception' = "KeyError"
    /\ pc' = "crashed"
    /\ UNCHANGED << page, results_dir, parameter_combinations, selected_frequency,
                    selected_blocksize, valid_nob, selected_nob, file, df, category,
                    only_xy, distance, axis, param_3d, color_range, x_axis, y_axis,
                    read_path, ui >>

\* valid_nob, the select box over it (or over the placeholder), and the file name.
Filter ==
    /\ pc = "filter"
    /\ LET valid == filter_valid_combinations(selected_frequency, selected_blocksize,
                                              results_dir)
           options == IF valid # << >> THEN { IntValue(n) : n \in Range(valid) }
                      ELSE { StrValue(NoValidCombinations) }
       IN  /\ valid_nob' = valid
           /\ \E option \in options :
                /\ selected_nob' = option
                /\ file' = ResultFileName(selected_frequency, selected_blocksize, option)
    /\ pc' = "check"
    /\ UNCHANGED << page, results_dir, parameter_combinations, selected_frequency,
                    selected_blocksize, df, category, only_xy, distance, axis,
                    param_3d, color_range, x_axis, y_axis, read_path, exception, ui >>

\* if valid_nob: pass / else: st.sidebar.warning(...); return
WarnNoValid ==
    /\ pc = "check"
    /\ valid_nob = << >>
    /\ ui' = [ui EXCEPT !.warning = TRUE]
    /\ pc' = "done"
    /\ UNCHANGED << page, results_dir, parameter_combinations, selected_frequency,
                    selected_blocksize, valid_nob, selected_nob, file, df, category,
                    only_xy, distance, axis, param_3d, color_range, x_axis, y_axis,
                    read_path, exception >>

\* df = pd.read_csv(Path(results_dir, file)), the file being in the directory.
ReadCsv ==
    /\ pc = "check"
    /\ valid_nob # << >>
    /\ file \in Range(results_dir)
    /\ read_path' = file
    /\ df' \in Tables
    /\ pc' = "loaded"
    /\ UNCHANGED << page, results_dir, parameter_combinations, selected_frequency,
                    selected_blocksize, valid_nob, selected_nob, file, category,
                    only_xy, distance, axis, param_3d, color_range, x_axis, y_axis,
                    exception, ui >>

\* ReadCsvNotFound without the return of the else branch before it.
ReadCsvNotFoundNoReturn ==
    /\ pc = "check"
    /\ file \notin Range(results_dir)
    /\ read_path' = file
    /\ exception' = "FileNotFoundError"
    /\ pc' = "crashed"
    /\ UNCHANGED << page, results_dir, parameter_combinations, selected_frequency,
                    selected_blocksize, valid_nob, selected_nob, file, df, category,
                    only_xy, distance, axis, param_3d, color_range, x_axis, y_axis, ui >>

\* pd.read_csv of a name the directory does not hold.
ReadCsvNotFound ==
    /\ pc = "check"
    /\ valid_nob # << >>
    /\ file \notin Range(results_dir)
    /\ read_path' = file
    /\ exception' = "FileNotFoundError"
    /\ pc' = "crashed"
    /\ UNCHANGED << page, results_dir, parameter_combinations, selected_frequency,
                    selected_blocksize, valid_nob, selected_nob, file, df, category,
                    only_xy, distance, axis, param_3d, color_range, x_axis, y_axis, ui >>

\* Raw_Data_Table, lines 60-62: show the table, then add the Index column.
ShowTable ==
    /\ pc = "loaded"
    /\ page = "Raw_Data_Table"
    /\ ui' = [ui EXCEPT !.dataframe = TRUE]
    /\ df' = WithIndex(df)
    /\ pc' = "done"
    /\ UNCHANGED << page, results_dir, parameter_combinations, selected_frequency,
                    selected_blocksize, valid_nob, selected_nob, file, category,
                    only_xy, distance, axis, param_3d, color_range, x_axis, y_axis,
                    read_path, exception >>

\* The axis options a user of Plot_Params picks among in this model.
AxisChoices == { "name", "None", "Index", "mae_coord" }

\* Plot_Params, lines 60-65: add the Index column, select the two axes.
SelectAxes ==
    /\ pc = "loaded"
    /\ page = "Plot_Params"
    /\ df' = WithIndex(df)
    /\ x_axis' \in ({ "name" } \cup DOMAIN df') \cap AxisChoices
    /\ y_axis' \in ({ "None" } \cup DOMAIN df') \cap AxisChoices
    /\ pc' = "axes"
    /\ UNCHANGED << page, results_dir, parameter_combinations, selected_frequency,
                    selected_blocksize, valid_nob, selected_nob, file, category,
                    only_xy, distance, axis, param_3d, color_range, read_path,
                    exception, ui >>

\* Plot_Params, lines 67-76: the scatter plot of two columns of df.
Scatter ==
    /\ pc = "axes"
    /\ x_axis # "None" /\ y_axis # "None"
    /\ { x_axis, y_axis } \subseteq DOMAIN df
    /\ ui' = [ui EXCEPT !.chart = [shown |-> TRUE, x |-> x_axis, y |-> y_axis]]
    /\ pc' = "done"
    /\ UNCHANGED << page, results_dir, parameter_combinations, selected_frequency,
                    selected_blocksize, valid_nob, selected_nob, file, df, category,
                    only_xy, distance, axis, param_3d, color_range, x_axis, y_axis,
                    read_path, exception >>

\* px.scatter(df, x=..., y=...) naming a column df does not have.
ScatterValueError ==
    /\ pc = "axes"
    /\ x_axis # "None" /\ y_axis # "None"
    /\ ~ ({ x_axis, y_axis } \subseteq DOMAIN df)
    /\ exception' = "ValueError"
    /\ pc' = "crashed"
    /\ UNCHANGED << page, results_dir, parameter_combinations, selected_frequency,
                    selected_blocksize, valid_nob, selected_nob, file, df, category,
                    only_xy, distance, axis, param_3d, color_range, x_axis, y_axis,
                    read_path, ui >>

\* Plot_Params, lines 77-78: st.info(...)
ScatterInfo ==
    /\ pc = "axes"
    /\ ~ (x_axis # "None" /\ y_axis # "None")
    /\ ui' = [ui EXCEPT !.info = TRUE]
    /\ pc' = "done"
    /\ UNCHANGED << page, results_dir, parameter_combinations, selected_frequency,
                    selected_blocksize, valid_nob, selected_nob, file, df, category,
                    only_xy, distance, axis, param_3d, color_range, x_axis, y_axis,
                    read_path, exception >>

\* Evaluation page, lines 148-155: the category select box and the xy check box.
SelectCategory ==
    /\ pc = "loaded"
    /\ page = EvaluationPage
    /\ category' \in Range(Categories)
    /\ only_xy' \in BOOLEAN
    /\ pc' = "resolve"
    /\ UNCHANGED << page, results_dir, parameter_combinations, selected_frequency,
                    selected_blocksize, valid_nob, selected_nob, file, df, distance,
                    axis, param_3d, color_range, x_axis, y_axis, read_path,
                    exception, ui >>

\* Evaluation page, lines 157-185: the branch of the category, with the select box
\* it shows (distance for Accuracy, axis for Mean Difference).
ResolveMetric ==
    /\ pc = "resolve"
    /\ distance' \in (IF category = "Accuracy" THEN Range(Distances) ELSE { distance })
    /\ axis' \in (IF category = "Mean Difference" THEN Range(Axes) ELSE { axis })
    /\ LET r == Resolve(category, only_xy, distance', axis', df)
       IN  /\ param_3d' = r.param_3d
           /\ color_range' = r.color_range
           /\ exception' = IF r.outcome = "KeyError" THEN "KeyError" ELSE exception
           /\ ui' = [ui EXCEPT !.error = (r.outcome = "unknown")]
           /\ pc' = CASE r.outcome = "ok" -> "plot"
                      [] r.outcome = "KeyError" -> "crashed"
                      [] OTHER -> "done"
    /\ UNCHANGED << page, results_dir, parameter_combinations, selected_frequency,
                    selected_blocksize, valid_nob, selected_nob, file, df, category,
                    only_xy, x_axis, y_axis, read_path >>

\* Evaluation page, lines 187-194: colour map, description, plot_3d and the chart.
Plot ==
    /\ pc = "plot"
    /\ Plot3dColumns(param_3d) \subseteq DOMAIN df
    /\ \E cmap \in Range(Cmaps) :
         ui' = [ui EXCEPT
                  !.description = get_parameter_description(category, distance, axis),
                  !.chart = [shown |-> TRUE, title |-> param_3d, color |-> param_3d,
                             cmap |-> cmap, range_color |-> color_range]]
    /\ pc' = "done"
    /\ UNCHANGED << page, results_dir, parameter_combinations, selected_frequency,
                    selected_blocksize, valid_nob, selected_nob, file, df, category,
                    only_xy, distance, axis, param_3d, color_range, x_axis, y_axis,
                    read_path, exception >>

\* plot_3d reading a column df does not have, after the description is shown.
PlotKeyError ==
    /\ pc = "plot"
    /\ ~ (Plot3dColumns(param_3d) \subseteq DOMAIN df)
    /\ ui' = [ui EXCEPT
                !.description = get_parameter_description(category, distance, axis)]
    /\ exception' = "KeyError"
    /\ pc' = "crashed"
    /\ UNCHANGED << page, results_dir, parameter_combinations, selected_frequency,
                    selected_blocksize, valid_nob, selected_nob, file, df, category,
                    only_xy, distance, axis, param_3d, color_range, x_axis, y_axis,
                    read_path >>

Next ==
    \/ Scan
    \/ SelectParameters
    \/ SelectKeyError
    \/ Filter
    \/ WarnNoValid
    \/ ReadCsv
    \/ ReadCsvNotFound
    \/ ShowTable
    \/ SelectAxes
    \/ Scatter
    \/ ScatterValueError
    \/ ScatterInfo
    \/ SelectCategory
    \/ ResolveMetric
    \/ Plot
    \/ PlotKeyError

Spec == Init /\ [][Next]_vars

-----------------------------------------------------------------------------
(* The two index functions on their own, over a wider set of directories and for
   every (frequency, blocksize) pair *)

InitIndex ==
    /\ page = "Plot_Params"
    /\ results_dir \in Listings(IndexNames, MaxFiles)
    /\ Fresh

\* filter_valid_combinations(frequency, blocksize, results_dir)
Query(frequency, blocksize) ==
    /\ pc = "select"
    /\ selected_frequency' = frequency
    /\ selected_blocksize' = blocksize
    /\ valid_nob' = filter_valid_combinations(frequency, blocksize, results_dir)
    /\ pc' = "queried"
    /\ UNCHANGED << page, results_dir, parameter_combinations, selected_nob, file,
                    df, category, only_xy, distance, axis, param_3d, color_range,
                    x_axis, y_axis, read_path, exception, ui >>

NextIndex ==
    \/ Scan
    \/ \E f \in ParamValues, b \in ParamValues : Query(f, b)

SpecIndex == InitIndex /\ [][NextIndex]_vars

-----------------------------------------------------------------------------
(* Properties of the combination index *)

Dimensions == { "frequency", "blocksize", "nob" }
GroupOf(k) == CASE k = "frequency" -> 1 [] k = "blocksize" -> 2 [] k = "nob" -> 3

\* The file is one the scans look at: its name ends in .csv and the pattern is found.
IsResultFile(f) == EndsWith(f, CSV) /\ re_search(f).matched

\* The integers that occur for dimension k in some matching .csv file name.
Occurring(k, listing) ==
    { ParseInt(re_search(f).groups[GroupOf(k)]) :
        f \in { g \in Range(listing) : IsResultFile(g) } }

StrictlyAscending(q) == \A i, j \in 1..Len(q) : i < j => q[i] < q[j]

Discovered == pc \in { "select", "queried" }

\* C1: after filter_valid_combinations(frequency, blocksize, dir), the returned nob
\* values are exactly those n for which the file named
\* result_summary_f{frequency}_bs{blocksize}_nob{n}.csv is in the directory.
C1_FilterIsExactFile ==
    pc = "queried" =>
        \A n \in ParamValues \cup Range(valid_nob) :
            n \in Range(valid_nob)
                <=> ResultFileName(selected_frequency, selected_blocksize, IntValue(n))
                        \in Range(results_dir)

\* C2: when no file of the directory matches, extract_parameters_from_paths returns
\* a result that has each of the three dimensions, each mapped to the empty list.
C2_EmptyDimensionsPresent ==
    (Discovered /\ \A f \in Range(results_dir) : ~ IsResultFile(f)) =>
        \A k \in Dimensions :
            /\ k \in DOMAIN parameter_combinations
            /\ parameter_combinations[k] = << >>

\* C3: a run against a directory with no matching file raises no exception, loads
\* no table, resolves no metric and renders no chart.
C3_EmptyDirectoryHalts ==
    (\A f \in Range(results_dir) : ~ IsResultFile(f)) =>
        /\ exception = "none"
        /\ df = NoTable
        /\ param_3d = ""
        /\ ~ ui.chart.shown

\* C4: whatever the listing order, every list extract_parameters_from_paths returns
\* is strictly ascending (so without duplicates) and holds exactly the integers that
\* occur for its dimension in some matching .csv file name; every dimension for
\* which an integer occurs has its list.
C4_DiscoverSortedExact ==
    Discovered =>
        \A k \in Dimensions :
            /\ Occurring(k, results_dir) # {} => k \in DOMAIN parameter_combinations
            /\ k \in DOMAIN parameter_combinations =>
                /\ StrictlyAscending(parameter_combinations[k])
                /\ Range(parameter_combinations[k]) = Occurring(k, results_dir)

\* C4's case: two matching files listed with the larger nob first and the same
\* frequency twice.
C4_Witness ==
    /\ Discovered
    /\ Len(results_dir) = 2
    /\ IsResultFile(results_dir[1]) /\ IsResultFile(results_dir[2])
    /\ ParseInt(re_search(results_dir[1]).groups[3])
         > ParseInt(re_search(results_dir[2]).groups[3])
    /\ ParseInt(re_search(results_dir[1]).groups[1])
         = ParseInt(re_search(results_dir[2]).groups[1])
    /\ Len(parameter_combinations["nob"]) = 2
    /\ Len(parameter_combinations["frequency"]) = 1

-----------------------------------------------------------------------------
(* Properties of the metric resolution and of the render cycle *)

\* The branch of the category has run (to its end or to an exception).
Resolved == category # "" /\ pc \in { "plot", "done", "crashed" }

\* The resolution table: the column names, written out.
AccuracyNames ==
    << "accuracy_5cm", "accuracy_10cm", "accuracy_15cm", "accuracy_20cm",
       "accuracy_30cm", "accuracy_40cm", "accuracy_50cm", "accuracy_60cm" >>
AccuracyXYNames ==
    << "accuracy_5cm_xy", "accuracy_10cm_xy", "accuracy_15cm_xy", "accuracy_20cm_xy",
       "accuracy_30cm_xy", "accuracy_40cm_xy", "accuracy_50cm_xy", "accuracy_60cm_xy" >>
DistanceIndex(d) == CHOOSE i \in 1..Len(Distances) : Distances[i] = d

TableColumn(cat, xy, d, a) ==
    CASE cat = "Accuracy" ->
            IF xy THEN AccuracyXYNames[DistanceIndex(d)] ELSE AccuracyNames[DistanceIndex(d)]
      [] cat = "Beamforming Maxima" -> IF xy THEN "beamforming_dist_xy" ELSE "beamforming_dist"
      [] cat = "Mean Absolute Error" -> IF xy THEN "mae_xy" ELSE "mae_coord"
      [] cat = "Mean Distance" -> IF xy THEN "mean_dist_xy" ELSE "mean_dist"
      [] cat = "Median Distance" -> IF xy THEN "median_dist_xy" ELSE "median_dist"
      [] cat = "Standard Deviation" -> IF xy THEN "coord_std_xy" ELSE "coord_std"
      [] cat = "Interquartile Range" -> "iqr_dist"
      [] cat = "Mean Difference" ->
            CASE a = "x" -> "mean_diff_x" [] a = "y" -> "mean_diff_y" [] a = "z" -> "mean_diff_z"

\* C5: the resolved column name is the one the resolution table gives for the
\* category, distance, axis and xy-only flag; Interquartile Range and Mean Difference
\* resolve to the same column whatever the flag.
C5_ColumnFollowsTable ==
    Resolved => param_3d = TableColumn(category, only_xy, distance, axis)

\* C5's case: Accuracy at 10 cm with the xy-only flag, plotted.
C5_Witness ==
    /\ pc = "done"
    /\ category = "Accuracy" /\ only_xy /\ distance = 10
    /\ ui.chart.shown
    /\ ui.chart.color = "accuracy_10cm_xy"

\* m is the largest (smallest) value of the column.
IsMaxOf(m, col) == m \in Range(col) /\ \A v \in Range(col) : v <= m
IsMinOf(m, col) == m \in Range(col) /\ \A v \in Range(col) : m <= v

\* The non-xy column of a range-bearing category other than Standard Deviation.
TableBaseColumn(cat, a) == TableColumn(cat, FALSE, 0, a)

\* C6: for Standard Deviation the colour range is [min, max] of the selected column
\* (coord_std_xy with the xy-only flag, coord_std without); for every other category
\* but Accuracy it is [0, max of the non-xy column], the same with and without the flag.
C6_ColorRangeSource ==
    (Resolved /\ color_range # << >> /\ category # "Accuracy") =>
        IF category = "Standard Deviation"
        THEN LET selected == IF only_xy THEN "coord_std_xy" ELSE "coord_std"
             IN  /\ Len(color_range) = 2
                 /\ selected \in DOMAIN df
                 /\ IsMinOf(color_range[1], df[selected])
                 /\ IsMaxOf(color_range[2], df[selected])
        ELSE /\ Len(color_range) = 2
             /\ color_range[1] = 0
             /\ TableBaseColumn(category, axis) \in DOMAIN df
             /\ IsMaxOf(color_range[2], df[TableBaseColumn(category, axis)])

\* C6's case: Standard Deviation with the xy-only flag, on a table whose coord_std_xy
\* and coord_std differ in minimum and maximum, plotted with the range of coord_std_xy.
C6_Witness ==
    /\ pc = "done"
    /\ category = "Standard Deviation" /\ only_xy
    /\ ui.chart.shown
    /\ ui.chart.range_color = << 2, 5 >>
    /\ df["coord_std_xy"] = SampleB /\ df["coord_std"] = SampleA

\* C7: for Accuracy the colour range is [0, 1], whatever the table, the distance and
\* the xy-only flag.
C7_AccuracyRange ==
    (Resolved /\ category = "Accuracy") => color_range = << 0, 1 >>

\* C7's case: Accuracy plotted over a table whose accuracy column reaches 5.
C7_Witness ==
    /\ pc = "done"
    /\ category = "Accuracy" /\ ~ only_xy /\ distance = 60
    /\ ui.chart.shown
    /\ ui.chart.range_color = << 0, 1 >>
    /\ IsMaxOf(5, df["accuracy_60cm"])

\* The valid-nob set has been computed for the selected pair and is empty.
EmptyValidNob == selected_nob # NoValue /\ valid_nob = << >>

\* C8: with an empty valid-nob set the run is at the check or has ended with the
\* warning; no table is loaded, no metric resolved, no chart rendered, nothing read.
\* No run ever reads a file name built from the placeholder.
C8_EmptyValidNobEnds ==
    /\ EmptyValidNob =>
        /\ pc \in { "check", "done" }
        /\ pc = "done" => ui.warning
        /\ exception = "none"
        /\ df = NoTable
        /\ read_path = << >>
        /\ category = "" /\ param_3d = "" /\ color_range = << >>
        /\ ~ ui.chart.shown /\ ~ ui.dataframe
    /\ read_path # << >> => selected_nob.t = "int"

\* C8's case: a run that ended with the warning, the placeholder selected.
C8_Witness ==
    /\ pc = "done"
    /\ ui.warning
    /\ valid_nob = << >>
    /\ selected_nob = StrValue(NoValidCombinations)
    /\ file = ResultFileName(selected_frequency, selected_blocksize,
                             StrValue(NoValidCombinations))

\* A column the resolution refers to is absent from the loaded table.
ReferencedColumnAbsent ==
    \/ param_3d \notin DOMAIN df
    \/ /\ RangeColumn(category, only_xy, distance, axis) # ""
       /\ RangeColumn(category, only_xy, distance, axis) \notin DOMAIN df

\* C9: when the category is outside the enumerated set or a referenced column is
\* absent from the table, no exception is raised, no chart is rendered, and the run
\* ends with the error message shown.
C9_UnknownSelectionMessage ==
    (Resolved /\ (category \notin Range(Categories) \/ ReferencedColumnAbsent)) =>
        /\ exception = "none"
        /\ ~ ui.chart.shown
        /\ pc = "done" => ui.error

\* C10: the file name pd.read_csv is called with is a name of the directory listing.
C10_ReadFileIsListed ==
    read_path # << >> => read_path \in Range(results_dir)

=============================================================================
